---- MODULE Spec2Model ----
(***************************************************************************)
(* The CodeBuild Lambda provider of LiquibaseRDS                           *)
(* (src/codebuild-lambda-provider/index.ts): a CloudFormation custom       *)
(* resource handler that starts a CodeBuild build, polls it until it is    *)
(* no longer IN_PROGRESS or a wall-clock budget is exceeded, logs failure  *)
(* diagnostics and answers with a response record.                         *)
(*                                                                         *)
(* One invocation is a single async control flow; every action below is    *)
(* the code that runs between two awaits.  The build service, the log      *)
(* service and the clock are the environment.  Times are milliseconds.     *)
(***************************************************************************)
EXTENDS Integers, Sequences, FiniteSets, TLC

(***************************************************************************)
(* Bounds of the model.                                                    *)
(***************************************************************************)
MaxInvocations == 2      \* invocations of handler in one behaviour
MaxLatency == 1          \* an external call takes 0 or MaxLatency seconds
MaxLogEvents == 1        \* events returned by one GetLogEvents call
MaxAttempts == 10        \* status queries of one poll loop; the timeout ends every
                         \* loop of the inputs below before this cap is reached

(***************************************************************************)
(* Program constants.                                                      *)
(***************************************************************************)
SafetyBuffer == 30000    \* "Leave 30s buffer"
MinWaitTime == 60000     \* "minimum 1 minute"
BaseWait == 5000
WaitIncrement == 1000
MaxWait == 30000
LogLimit == 10           \* limit: 10

(***************************************************************************)
(* Inputs.                                                                 *)
(***************************************************************************)
Budgets == {45000, 95000}    \* context.getRemainingTimeInMillis() at entry
Latencies == {0, MaxLatency * 1000}
LogicalIds == {"L1"}
PhysicalIds == {"L1", "P1"}
BuildIds == {"proj:b1"}
ProjectNames == {"proj"}
TerminalStatuses == {"SUCCEEDED", "FAILED", "STOPPED"}
ServiceMessages == {"Rate exceeded"}

RequestIdOf(n) == "req-" \o ToString(n)

\* The n-th event CloudFormation delivers: a Create carries no PhysicalResourceId,
\* an Update or Delete carries one of physicalIds.  The last two sets are events whose
\* RequestType is outside the declared union (index.ts:57-61).
Events(n, physicalIds) ==
       [RequestType : {"Create"}, RequestId : {RequestIdOf(n)},
        LogicalResourceId : LogicalIds, ProjectName : ProjectNames]
  \cup [RequestType : {"Update", "Delete"}, RequestId : {RequestIdOf(n)},
        LogicalResourceId : LogicalIds, PhysicalResourceId : physicalIds,
        ProjectName : ProjectNames]
  \cup [RequestType : {"Replace", ""}, RequestId : {RequestIdOf(n)},
        LogicalResourceId : LogicalIds, ProjectName : ProjectNames]
  \cup [RequestType : {"Replace"}, RequestId : {RequestIdOf(n)},
        LogicalResourceId : LogicalIds, PhysicalResourceId : {"P1"},
        ProjectName : ProjectNames]

NoEvent == [RequestType |-> "none"]
EmptyData == [k \in {} |-> ""]
NoResponse == [k \in {} |-> ""]
NoOutcome == [kind |-> "none"]

\* new Error(message)
Error(message) == [isError |-> TRUE, message |-> message]

\* the invocations that run at the same time
RunIds == {1, 2}

\* the locals of an invocation that has not begun
IdleRun ==
  [pc |-> "idle", event |-> NoEvent, budget |-> 0, now |-> 0, physicalResourceId |-> "",
   buildId |-> "", asking |-> "", maxWaitTime |-> 0, startTime |-> 0, attempts |-> 0,
   buildStatus |-> "IN_PROGRESS", wait |-> 0, response |-> NoResponse]

VARIABLES
  pc,                 \* where the invocation is: idle, starting, polling,
                      \* sleeping, diagMeta, diagLogs, done, raised
  event,              \* the event of the current invocation
  budget,             \* remaining time of the Lambda at entry
  now,                \* Date.now(), counted from the entry of the invocation
  physicalResourceId, \* handler's const physicalResourceId
  response,           \* the value handler returned
  thrown,             \* errors that reached handler's catch (or escaped it)
  buildId,            \* executeCodeBuildProject's const buildId
  maxWaitTime, startTime, attempts, buildStatus,  \* waitForBuildCompletion's locals
  waits,              \* the wait times slept so far, in order
  svcStatus,          \* the build's status on the build service
  nStart, nQuery, nDiagMeta, nLogFetch,   \* requests sent in this invocation
  nInProgress,        \* poll queries answered IN_PROGRESS in this invocation
  startOutcome,       \* how StartBuild settled in this invocation
  lastPoll,           \* how the latest poll query settled: throw, notfound, status
  diagCaught,         \* errors swallowed by the diagnostics' own try/catch
  logged,             \* the log lines fetchRecentLogEvents printed
  invocations,        \* invocations so far
  chain,              \* "ok" while the invocations began with a Create and each
                      \* later event is an Update/Delete echoing the last token
  chainToken,         \* while chain is "ok": the token the Create was answered with
  metaSeen,           \* how the latest metadata query of the diagnostics settled
  logSeen,            \* how the latest GetLogEvents settled
  runs,               \* invocations that run at the same time: the locals of each
  builds,             \* the builds on the build service, by id: their status
  asked,              \* the BatchGetBuilds requests sent so far: by which run, for which id
  synthEnv,           \* the region and account the app is synthesized for
  constructs,         \* the LiquibaseRDS constructs of the stack, as synthesized
  stackChildren,      \* the pull-through cache rules of the stack, by their path below it
  ran,                \* the commands the latest build of a project ran
  deployed,           \* the properties CloudFormation holds of each trigger resource
  lastEvents,         \* the events the latest deployment sent to the build trigger
  clock,              \* Date.now() of the machine that synthesizes
  deploys             \* deployments so far

vars == <<pc, event, budget, now, physicalResourceId, response, thrown, buildId,
          maxWaitTime, startTime, attempts, buildStatus, waits, svcStatus,
          nStart, nQuery, nDiagMeta, nLogFetch, nInProgress, startOutcome,
          lastPoll, diagCaught, logged,
          invocations, chain, chainToken, metaSeen, logSeen, runs, builds, asked,
          synthEnv, constructs, stackChildren, ran, deployed, lastEvents, clock, deploys>>

\* the stack the construct is synthesized into, and its deployments
stackVars == <<synthEnv, constructs, stackChildren, ran, deployed, lastEvents, clock, deploys>>
\* one invocation of handler
handlerVars == <<pc, event, budget, now, physicalResourceId, response, thrown, buildId,
                 maxWaitTime, startTime, attempts, buildStatus, waits, svcStatus,
                 nStart, nQuery, nDiagMeta, nLogFetch, nInProgress, startOutcome,
                 lastPoll, diagCaught, logged, invocations, chain, chainToken,
                 metaSeen, logSeen>>
\* invocations of handler that run at the same time, and the build service
concurrentVars == <<runs, builds, asked>>

\* what an observer of the diagnostics' calls has recorded
traceVars == <<metaSeen, logSeen>>

pollVars == <<maxWaitTime, startTime, attempts, buildStatus, waits>>
diagVars == <<nDiagMeta, nLogFetch, diagCaught, logged>>
callerVars == <<event, budget, physicalResourceId, invocations, chain>>

Init ==
  /\ pc = "idle"
  /\ event = NoEvent
  /\ budget = 0
  /\ now = 0
  /\ physicalResourceId = ""
  /\ response = NoResponse
  /\ thrown = <<>>
  /\ buildId = ""
  /\ maxWaitTime = 0
  /\ startTime = 0
  /\ attempts = 0
  /\ buildStatus = "IN_PROGRESS"
  /\ waits = <<>>
  /\ svcStatus = "NONE"
  /\ nStart = 0
  /\ nQuery = 0
  /\ nDiagMeta = 0
  /\ nLogFetch = 0
  /\ nInProgress = 0
  /\ startOutcome = NoOutcome
  /\ lastPoll = "none"
  /\ diagCaught = 0
  /\ logged = <<>>
  /\ invocations = 0
  /\ chain = "none"
  /\ chainToken = ""
  /\ metaSeen = NoOutcome
  /\ logSeen = NoOutcome
  /\ runs = [i \in RunIds |-> IdleRun]
  /\ builds = [id \in {} |-> ""]
  /\ asked = {}
  /\ synthEnv = [k \in {} |-> ""]
  /\ constructs = <<>>
  /\ stackChildren = {}
  /\ ran = <<>>
  /\ deployed = [k \in {} |-> ""]
  /\ lastEvents = <<>>
  /\ clock = 0
  /\ deploys = 0


(***************************************************************************)
(* Values of the services.  An optional value (a?.b) is <<>> when          *)
(* undefined and <<v>> when defined.                                       *)
(***************************************************************************)
\* StartBuild: the call rejects, or resolves with a response whose build and
\* build id may be missing or empty.
StartOutcomes ==
       [kind : {"throw"}, message : ServiceMessages]
  \cup [kind : {"response"},
        resp : {[build |-> [id |-> b, projectName |-> "proj"]] : b \in BuildIds \cup {""}}
               \cup {[build |-> [projectName |-> "proj"]], [k \in {} |-> ""]}]

\* A build record of BatchGetBuilds for a build whose status on the service is s:
\* buildStatus and the two parts of the log location are optional fields.
BuildRecords(s) ==
  LET logs == {[k \in {} |-> ""], [groupName |-> "g"], [streamName |-> "s"],
               [groupName |-> "g", streamName |-> "s"], [groupName |-> "", streamName |-> "s"]}
  IN  {[buildStatus |-> s, logs |-> l] : l \in logs}
      \cup {[logs |-> l] : l \in logs}
      \cup {[buildStatus |-> s], [buildStatus |-> ""]}

\* BatchGetBuilds: the call rejects, or resolves with no builds, or with the record.
QueryOutcomes(s) ==
       [kind : {"throw"}, message : ServiceMessages]
  \cup [kind : {"response"},
        resp : {[k \in {} |-> ""], [builds |-> <<>>]} \cup {[builds |-> <<r>>] : r \in BuildRecords(s)}]

\* A log message is a sequence of characters; an event may carry no message.
Messages == {<<>>, <<" ">>, <<"a">>, <<" ", "b", " ">>}
LogEvents == {[k \in {} |-> ""]} \cup {[message |-> m] : m \in Messages}
SeqsUpTo(S, n) == UNION {[1..k -> S] : k \in 0..n}
\* GetLogEvents with limit: 10 returns at most that many events
LogEventsReturned == IF MaxLogEvents <= LogLimit THEN MaxLogEvents ELSE LogLimit
\* GetLogEvents: the call rejects, or resolves with or without a list of events.
LogOutcomes ==
       [kind : {"throw"}, message : ServiceMessages]
  \cup [kind : {"response"},
        resp : {[k \in {} |-> ""]}
               \cup {[events |-> es] : es \in SeqsUpTo(LogEvents, LogEventsReturned)}]

(***************************************************************************)
(* handler (index.ts:24-71)                                                *)
(***************************************************************************)
\* Variant: the token is always minted from the logical name.
PhysicalResourceIdLogical(ev) == ev.LogicalResourceId

\* Variant: the token is taken from the request, as many providers do.
PhysicalResourceIdFromRequest(ev) == ev.RequestId

\* 'PhysicalResourceId' in event ? event.PhysicalResourceId : event.LogicalResourceId
PhysicalResourceIdOf(ev) ==
  IF "PhysicalResourceId" \in DOMAIN ev THEN ev.PhysicalResourceId ELSE ev.LogicalResourceId

\* Variant: the two Data fields are filled from each other's value.
SuccessResponseSwapped(pid, result) ==
  [PhysicalResourceId |-> pid,
   Data |-> [BuildId |-> result.buildStatus, BuildStatus |-> result.buildId]]

\* return { PhysicalResourceId, Data: { BuildId, BuildStatus } }
SuccessResponse(pid, result) ==
  [PhysicalResourceId |-> pid,
   Data |-> [BuildId |-> result.buildId, BuildStatus |-> result.buildStatus]]

\* return { PhysicalResourceId, Data: {} }
DeleteResponse(pid) == [PhysicalResourceId |-> pid, Data |-> EmptyData]

\* Variant: the catch block reports the failure in Data as well.
ErrorResponseWithStatus(pid, error) ==
  [PhysicalResourceId |-> pid, Data |-> [BuildStatus |-> "FAILED"],
   Reason |-> IF error.isError THEN error.message ELSE "Unknown error occurred"]

\* the catch block's return
ErrorResponse(pid, error) ==
  [PhysicalResourceId |-> pid, Data |-> EmptyData,
   Reason |-> IF error.isError THEN error.message ELSE "Unknown error occurred"]

\* (event as any).RequestType || 'UNKNOWN'
UnknownRequestTypeError(ev) ==
  Error("Unknown request type: " \o (IF ev.RequestType = "" THEN "UNKNOWN" ELSE ev.RequestType))

\* Variant: executeCodeBuildProject is returned without await, so that only the
\* dispatch itself is covered by the try block.
TryScopeDispatchOnly == {"dispatch"}

\* The places a throw can come from that lie inside handler's try block: the
\* dispatch itself and, because the call is awaited inside the try, the whole of
\* executeCodeBuildProject (start, poll loop, job failure).
TryScope == {"dispatch", "start", "poll", "fail"}

\* the caller's record of the chain's token once resp has been returned
ChainTokenAfter(resp) ==
  IF chain' # "ok" THEN ""
  ELSE IF invocations' = 1 THEN resp.PhysicalResourceId ELSE chainToken

\* handler returns resp
Return(resp) ==
  /\ pc' = "done"
  /\ response' = resp
  /\ thrown' = <<>>
  /\ chainToken' = ChainTokenAfter(resp)

\* an error is thrown at `site`: the catch block answers, or the error escapes
Throw(site, pid, error) ==
  IF site \in TryScope
  THEN /\ pc' = "done"
       /\ response' = ErrorResponse(pid, error)
       /\ thrown' = <<error>>
       /\ chainToken' = ChainTokenAfter(response')
  ELSE /\ pc' = "raised"
       /\ response' = NoResponse
       /\ thrown' = <<error>>
       /\ chainToken' = ""

\* whether the run of invocations is still a Create followed by echoing events
ChainAfter(ev) ==
  IF invocations = 0
  THEN IF ev.RequestType = "Create" THEN "ok" ELSE "broken"
  ELSE IF /\ chain = "ok"
          /\ pc = "done"
          /\ ev.RequestType \in {"Update", "Delete"}
          /\ ev.PhysicalResourceId = response.PhysicalResourceId
       THEN "ok" ELSE "broken"

\* Variant: only a Create runs the build.
RunsBuildCreateOnly(type) == type = "Create"

\* Variant: every known request type runs the build.
RunsBuildAnyKnown(type) == type \in {"Create", "Update", "Delete"}

\* event.RequestType === 'Create' || event.RequestType === 'Update'
RunsBuild(type) == type \in {"Create", "Update"}

\* Variant: every request type that runs no build is answered like a Delete.
IsDeleteOrUnknown(type) == type \notin {"Create", "Update"}

\* event.RequestType === 'Delete'
IsDelete(type) == type = "Delete"

\* CloudFormation invokes handler: the code up to the first await.  For Create
\* and Update that is the sending of StartBuild; the other branches answer at once.
Invoke(ev, b) ==
  /\ pc \in {"idle", "done", "raised"}
  /\ UNCHANGED <<stackVars, traceVars, concurrentVars>>
  /\ invocations < MaxInvocations
  /\ event' = ev
  /\ budget' = b
  /\ now' = 0
  /\ invocations' = invocations + 1
  /\ chain' = ChainAfter(ev)
  /\ physicalResourceId' = PhysicalResourceIdOf(ev)
  /\ buildId' = ""
  /\ maxWaitTime' = 0 /\ startTime' = 0 /\ attempts' = 0
  /\ buildStatus' = "IN_PROGRESS" /\ waits' = <<>>
  /\ svcStatus' = "NONE"
  /\ nQuery' = 0 /\ nDiagMeta' = 0 /\ nLogFetch' = 0 /\ nInProgress' = 0
  /\ startOutcome' = NoOutcome /\ lastPoll' = "none"
  /\ diagCaught' = 0 /\ logged' = <<>>
  /\ IF RunsBuild(ev.RequestType)
     THEN /\ nStart' = 1
          /\ pc' = "starting"
          /\ response' = NoResponse
          /\ thrown' = <<>>
          /\ chainToken' = IF chain' = "ok" THEN chainToken ELSE ""
     ELSE /\ nStart' = 0
          /\ IF IsDelete(ev.RequestType)
             THEN Return(DeleteResponse(physicalResourceId'))
             ELSE Throw("dispatch", physicalResourceId', UnknownRequestTypeError(ev))

(***************************************************************************)
(* waitForBuildCompletion (index.ts:112-151)                               *)
(***************************************************************************)
Max(a, b) == IF a >= b THEN a ELSE b
Min(a, b) == IF a <= b THEN a ELSE b

\* Math.max(context.getRemainingTimeInMillis() - 30000, 60000)
MaxWaitTimeOf(remaining) == Max(remaining - SafetyBuffer, MinWaitTime)

\* Variant: the loop has no timeout check.
TimedOutNever(t, start, maxWait) == FALSE

\* Variant: the check allows for one more wait of the longest kind.
TimedOutWithGrace(t, start, maxWait) == t - start > maxWait + MaxWait

\* Variant: the loop gives up as soon as the window is used up.
TimedOutAtOrAfter(t, start, maxWait) == t - start >= maxWait

\* Date.now() - startTime > maxWaitTime
TimedOut(t, start, maxWait) == t - start > maxWait

TimeoutError(maxWait) ==
  Error("Build timeout: exceeded maximum wait time of " \o ToString(maxWait) \o "ms")

\* buildStatusResp.builds?.[0]
FirstBuild(resp) ==
  IF "builds" \in DOMAIN resp /\ Len(resp.builds) > 0 THEN <<resp.builds[1]>> ELSE <<>>

\* Variant: a missing build is reported as a failed build.
NotFoundAsBuildFailed(id) == Error("Build failed with status: NOT_FOUND")

NotFoundError(id) == Error("Build not found: " \o id)

\* Variant: a record without a status counts as a build still running.
StatusOfMissingInProgress(build) ==
  IF "buildStatus" \in DOMAIN build /\ build.buildStatus # ""
  THEN build.buildStatus ELSE "IN_PROGRESS"

\* build.buildStatus || 'FAILED'
StatusOf(build) ==
  IF "buildStatus" \in DOMAIN build /\ build.buildStatus # ""
  THEN build.buildStatus ELSE "FAILED"

\* Variant: the loop runs until the build has succeeded.
KeepsPollingUntilSuccess(status) == status # "SUCCEEDED"

\* the while condition: buildStatus === 'IN_PROGRESS'
KeepsPolling(status) == status = "IN_PROGRESS"

\* Variant: the wait grows without a cap.
WaitTimeUncapped(n) == BaseWait + n * WaitIncrement

\* Variant: the wait is computed from the number of queries already answered
\* before this one.
WaitTimeFromBase(n) == Min(BaseWait + (n - 1) * WaitIncrement, MaxWait)

\* Math.min(5000 + (attempts * 1000), 30000)
WaitTimeOf(n) == Min(BaseWait + n * WaitIncrement, MaxWait)

\* Variant: the watcher stops the build when it gives up.
BuildStoppedOnTimeout(s) == IF s = "IN_PROGRESS" THEN "STOPPED" ELSE s

\* The timeout branch only throws: no request is sent to the build service, and
\* the build whose status there is s stays as it is.
BuildAfterTimeout(s) == s

\* The head of one loop iteration, entered with buildStatus IN_PROGRESS at time
\* t: the timeout check, then attempts++ and the sending of BatchGetBuilds.  svc is
\* the build's status on the service.
LoopHead(t, start, maxWait, n, pid, svc) ==
  IF TimedOut(t, start, maxWait)
  THEN /\ Throw("poll", pid, TimeoutError(maxWait))
       /\ attempts' = n
       /\ nQuery' = nQuery
       /\ svcStatus' = BuildAfterTimeout(svc)
  ELSE /\ pc' = "polling"
       /\ attempts' = n + 1
       /\ nQuery' = nQuery + 1
       /\ svcStatus' = svc
       /\ UNCHANGED <<response, thrown, chainToken>>

(***************************************************************************)
(* executeCodeBuildProject (index.ts:76-107)                               *)
(***************************************************************************)
\* buildResponse.build?.id
StartedBuildId(resp) ==
  IF "build" \in DOMAIN resp /\ "id" \in DOMAIN resp.build THEN <<resp.build.id>> ELSE <<>>

\* Variant: only a missing id is refused, an empty one is not.
NoBuildIdUndefinedOnly(id) == id = <<>>

\* !buildId
NoBuildId(id) == id = <<>> \/ id[1] = ""

NoBuildIdError == Error("Failed to start build: No build ID returned from CodeBuild")

\* the string made of the characters of a log message
RECURSIVE Text(_)
Text(m) == IF m = <<>> THEN "" ELSE Head(m) \o Text(Tail(m))

\* the lines one after the other, each behind a separator
RECURSIVE LinesText(_)
LinesText(lines) ==
  IF lines = <<>> THEN "" ELSE "; " \o Text(Head(lines)) \o LinesText(Tail(lines))

\* Variant: the error carries the log lines the diagnostics kept.
BuildFailedWithLogs(status) ==
  Error("Build failed with status: " \o status \o LinesText(logged'))

\* new Error(`Build failed with status: ${result.buildStatus}`)
BuildFailedError(status) == Error("Build failed with status: " \o status)

\* Variant: only FAILED counts as a job failure.
IsJobFailureFailedOnly(status) == status = "FAILED"

\* Variant: the diagnostics are collected whatever the loop ended with.
IsJobFailureAnyStatus(status) == TRUE

\* result.buildStatus !== 'SUCCEEDED'
IsJobFailure(status) == status # "SUCCEEDED"

\* StartBuild settles.  A rejection and a response without a build id throw; with
\* a build id the build exists on the service and waitForBuildCompletion is
\* entered and runs up to its first BatchGetBuilds.
StartBuildReturns(out, lat) ==
  /\ pc = "starting"
  /\ UNCHANGED <<stackVars, traceVars, concurrentVars>>
  /\ now' = now + lat
  /\ startOutcome' = out
  /\ UNCHANGED <<callerVars, nStart, nInProgress, lastPoll, diagVars>>
  /\ IF out.kind = "throw"
     THEN /\ Throw("start", physicalResourceId, Error(out.message))
          /\ UNCHANGED <<buildId, pollVars, svcStatus, nQuery>>
     ELSE IF NoBuildId(StartedBuildId(out.resp))
     THEN /\ Throw("start", physicalResourceId, NoBuildIdError)
          /\ UNCHANGED <<buildId, pollVars, svcStatus, nQuery>>
     ELSE /\ buildId' = StartedBuildId(out.resp)[1]
          /\ maxWaitTime' = MaxWaitTimeOf(budget - now')
          /\ startTime' = now'
          /\ buildStatus' = "IN_PROGRESS"
          /\ waits' = <<>>
          /\ LoopHead(now', startTime', maxWaitTime', 0, physicalResourceId, "IN_PROGRESS")

\* The poll loop's BatchGetBuilds settles: the rest of the iteration.  On
\* IN_PROGRESS the wait is chosen and the sleep begins; any other status leaves
\* the loop and executeCodeBuildProject goes on: it returns on SUCCEEDED and
\* otherwise calls logBuildFailureDetails, which sends its own BatchGetBuilds.
StatusQueryReturns(out, lat) ==
  /\ pc = "polling"
  /\ UNCHANGED <<stackVars, traceVars, concurrentVars>>
  /\ out \in QueryOutcomes(svcStatus)
  /\ now' = now + lat
  /\ UNCHANGED <<callerVars, buildId, maxWaitTime, startTime, attempts, svcStatus,
                 nStart, nQuery, startOutcome, nLogFetch, diagCaught, logged>>
  /\ IF out.kind = "throw"
     THEN /\ lastPoll' = "throw"
          /\ Throw("poll", physicalResourceId, Error(out.message))
          /\ UNCHANGED <<buildStatus, waits, nInProgress, nDiagMeta>>
     ELSE IF FirstBuild(out.resp) = <<>>
     THEN /\ lastPoll' = "notfound"
          /\ Throw("poll", physicalResourceId, NotFoundError(buildId))
          /\ UNCHANGED <<buildStatus, waits, nInProgress, nDiagMeta>>
     ELSE /\ lastPoll' = "status"
          /\ buildStatus' = StatusOf(FirstBuild(out.resp)[1])
          /\ IF KeepsPolling(buildStatus')
             THEN /\ waits' = Append(waits, WaitTimeOf(attempts))
                  /\ nInProgress' = nInProgress + 1
                  /\ pc' = "sleeping"
                  /\ UNCHANGED <<response, thrown, chainToken, nDiagMeta>>
             ELSE /\ UNCHANGED <<waits, nInProgress>>
                  /\ IF IsJobFailure(buildStatus')
                     THEN /\ nDiagMeta' = nDiagMeta + 1
                          /\ pc' = "diagMeta"
                          /\ UNCHANGED <<response, thrown, chainToken>>
                     ELSE /\ nDiagMeta' = nDiagMeta
                          /\ Return(SuccessResponse(physicalResourceId,
                                 [buildId |-> buildId, buildStatus |-> buildStatus']))

\* The setTimeout of the sleep fires: the clock has advanced by the wait and the
\* next iteration begins.
SleepOver ==
  /\ pc = "sleeping"
  /\ UNCHANGED <<stackVars, traceVars, concurrentVars>>
  /\ now' = now + waits[Len(waits)]
  /\ UNCHANGED <<callerVars, buildId, maxWaitTime, startTime, buildStatus, waits,
                 nStart, nInProgress, startOutcome, lastPoll, diagVars>>
  /\ LoopHead(now', startTime, maxWaitTime, attempts, physicalResourceId, svcStatus)

\* SleepOver, for as long as the loop is within the bound of the model.
SleepEnds == attempts < MaxAttempts /\ SleepOver

(***************************************************************************)
(* logBuildFailureDetails, fetchRecentLogEvents (index.ts:156-224)         *)
(***************************************************************************)
\* Variant: the group name alone is taken for a log location.
HasLogGroup(build) ==
  /\ "logs" \in DOMAIN build
  /\ "groupName" \in DOMAIN build.logs /\ build.logs.groupName # ""

\* logsInfo?.groupName && logsInfo?.streamName
HasLogLocation(build) ==
  /\ "logs" \in DOMAIN build
  /\ "groupName" \in DOMAIN build.logs /\ build.logs.groupName # ""
  /\ "streamName" \in DOMAIN build.logs /\ build.logs.streamName # ""

\* String.prototype.trim on a sequence of characters
RECURSIVE TrimLeft(_)
TrimLeft(m) == IF m # <<>> /\ Head(m) = " " THEN TrimLeft(Tail(m)) ELSE m
RECURSIVE TrimRight(_)
TrimRight(m) ==
  IF m # <<>> /\ m[Len(m)] = " " THEN TrimRight(SubSeq(m, 1, Len(m) - 1)) ELSE m
Trim(m) == TrimRight(TrimLeft(m))

\* logEvents.events?.map(e => e.message?.trim()).filter(Boolean) || []
RECURSIVE KeptOf(_)
KeptOf(events) ==
  IF events = <<>> THEN <<>>
  ELSE LET e == Head(events)
           t == IF "message" \in DOMAIN e THEN Trim(e.message) ELSE <<>>
       IN  (IF t = <<>> THEN <<>> ELSE <<t>>) \o KeptOf(Tail(events))
\* Variant: the messages are trimmed and none is dropped.
LogMessagesUnfiltered(resp) ==
  IF "events" \in DOMAIN resp
  THEN [i \in 1..Len(resp.events) |->
          IF "message" \in DOMAIN resp.events[i] THEN Trim(resp.events[i].message) ELSE <<>>]
  ELSE <<>>

LogMessages(resp) == IF "events" \in DOMAIN resp THEN KeptOf(resp.events) ELSE <<>>

\* logBuildFailureDetails has returned: executeCodeBuildProject throws the job failure
JobFails == Throw("fail", physicalResourceId, BuildFailedError(buildStatus))

\* Variant: the diagnostics have no try/catch of their own.
DiagTryScopeNone == {}

\* Variant: only the metadata query is covered by a try/catch.
DiagTryScopeMetadataOnly == {"diagMeta"}

\* The awaits of the diagnostics that lie inside a try block of the diagnostics:
\* the BatchGetBuilds of logBuildFailureDetails (index.ts:157-192) and the
\* GetLogEvents of fetchRecentLogEvents (index.ts:199-223).
DiagTryScope == {"diagMeta", "diagLogs"}

\* A call of the diagnostics rejects at `site`: the error is caught and printed
\* there and the job failure follows, or it leaves logBuildFailureDetails and
\* reaches handler's catch in place of the job failure.
DiagThrows(site, error) ==
  IF site \in DiagTryScope
  THEN /\ diagCaught' = diagCaught + 1
       /\ JobFails
  ELSE /\ diagCaught' = diagCaught
       /\ Throw("fail", physicalResourceId, error)

\* Variant: fetchRecentLogEvents is called without await, so that
\* logBuildFailureDetails returns and the job failure is answered while
\* GetLogEvents is still in flight.
DiagMetaReturnsUnawaited(out, lat) ==
  /\ pc = "diagMeta"
  /\ UNCHANGED <<stackVars, traceVars, concurrentVars>>
  /\ out \in QueryOutcomes(svcStatus)
  /\ now' = now + lat
  /\ UNCHANGED <<callerVars, buildId, pollVars, svcStatus, nStart, nQuery,
                 nInProgress, startOutcome, lastPoll, nDiagMeta, logged>>
  /\ IF out.kind = "throw"
     THEN /\ nLogFetch' = nLogFetch
          /\ DiagThrows("diagMeta", Error(out.message))
     ELSE /\ diagCaught' = diagCaught
          /\ IF FirstBuild(out.resp) # <<>> /\ HasLogLocation(FirstBuild(out.resp)[1])
             THEN /\ nLogFetch' = nLogFetch + 1
                  /\ pc' = "diagLogs"
                  /\ response' = ErrorResponse(physicalResourceId, BuildFailedError(buildStatus))
                  /\ thrown' = <<BuildFailedError(buildStatus)>>
                  /\ chainToken' = chainToken
             ELSE /\ nLogFetch' = nLogFetch
                  /\ JobFails

\* The BatchGetBuilds of logBuildFailureDetails settles.  A rejection is caught
\* there; with a build that has a log location GetLogEvents is sent.
DiagMetaStep(out, lat) ==
  /\ pc = "diagMeta"
  /\ UNCHANGED <<stackVars, concurrentVars>>
  /\ out \in QueryOutcomes(svcStatus)
  /\ now' = now + lat
  /\ UNCHANGED <<callerVars, buildId, pollVars, svcStatus, nStart, nQuery,
                 nInProgress, startOutcome, lastPoll, nDiagMeta, logged>>
  /\ IF out.kind = "throw"
     THEN /\ nLogFetch' = nLogFetch
          /\ DiagThrows("diagMeta", Error(out.message))
     ELSE /\ diagCaught' = diagCaught
          /\ IF FirstBuild(out.resp) # <<>> /\ HasLogLocation(FirstBuild(out.resp)[1])
             THEN /\ nLogFetch' = nLogFetch + 1
                  /\ pc' = "diagLogs"
                  /\ UNCHANGED <<response, thrown, chainToken>>
             ELSE /\ nLogFetch' = nLogFetch
                  /\ JobFails

DiagMetaReturns(out, lat) == DiagMetaStep(out, lat) /\ UNCHANGED traceVars

\* the same step, with the outcome of the call recorded
DiagMetaObserved(out, lat) ==
  DiagMetaStep(out, lat) /\ metaSeen' = out /\ UNCHANGED logSeen

\* GetLogEvents settles: the kept lines are printed, a rejection is caught.
LogFetchStep(out, lat) ==
  /\ pc = "diagLogs"
  /\ UNCHANGED <<stackVars, concurrentVars>>
  /\ now' = now + lat
  /\ UNCHANGED <<callerVars, buildId, pollVars, svcStatus, nStart, nQuery,
                 nInProgress, startOutcome, lastPoll, nDiagMeta, nLogFetch>>
  /\ IF out.kind = "throw"
     THEN /\ logged' = logged
          /\ DiagThrows("diagLogs", Error(out.message))
     ELSE /\ diagCaught' = diagCaught
          /\ logged' = LogMessages(out.resp)
          /\ JobFails

LogFetchReturns(out, lat) == LogFetchStep(out, lat) /\ UNCHANGED traceVars

\* the same step, with the outcome of the call recorded
LogFetchObserved(out, lat) ==
  LogFetchStep(out, lat) /\ logSeen' = out /\ UNCHANGED metaSeen

(***************************************************************************)
(* The environment                                                         *)
(***************************************************************************)
\* The build ends on the build service.  The service is followed for as long as
\* the invocation that started the build runs.
BuildProgress(s) ==
  /\ pc \in {"polling", "sleeping", "diagMeta", "diagLogs"}
  /\ UNCHANGED <<stackVars, traceVars, concurrentVars>>
  /\ svcStatus = "IN_PROGRESS"
  /\ svcStatus' = s
  /\ UNCHANGED <<pc, event, budget, now, physicalResourceId, response, thrown,
                 buildId, pollVars, nStart, nQuery, nInProgress, startOutcome,
                 lastPoll, diagVars,
                 invocations, chain, chainToken>>

HandlerStep ==
  \/ \E out \in StartOutcomes, lat \in Latencies : StartBuildReturns(out, lat)
  \/ \E out \in QueryOutcomes(svcStatus), lat \in Latencies : StatusQueryReturns(out, lat)
  \/ SleepEnds
  \/ \E out \in QueryOutcomes(svcStatus), lat \in Latencies : DiagMetaReturns(out, lat)
  \/ \E out \in LogOutcomes, lat \in Latencies : LogFetchReturns(out, lat)

\* The PhysicalResourceId of an Update or Delete is the one CloudFormation holds
\* for the resource: the token of the last response among them.
EchoedIds == PhysicalIds \cup (IF pc = "done" THEN {response.PhysicalResourceId} ELSE {})

Next ==
  \/ \E ev \in Events(invocations + 1, EchoedIds), b \in Budgets : Invoke(ev, b)
  \/ HandlerStep
  \/ \E s \in TerminalStatuses : BuildProgress(s)

Spec == Init /\ [][Next]_vars

\* Time advances and every external call returns: every pending step of the
\* invocation is eventually taken.
FairSpec == Spec /\ WF_vars(HandlerStep)

(***************************************************************************)
(* The diagnostics observed: the invocations with the calls returning at    *)
(* once, the outcome of every call of the diagnostics recorded, and the     *)
(* log service answering with up to LogLimit events.                        *)
(***************************************************************************)
MaxEventsSeen == 2       \* events of a GetLogEvents response, every combination

\* a response filled up to the limit: LogLimit events, two kinds in turn
FullResponses ==
  {[events |-> [i \in 1..LogLimit |-> IF i % 2 = 1 THEN e1 ELSE e2]] :
     e1 \in LogEvents, e2 \in LogEvents}

\* GetLogEvents: the call rejects, or resolves with or without a list of events
\* that is no longer than the limit asked for.
SeenLogOutcomes ==
       [kind : {"throw"}, message : ServiceMessages]
  \cup [kind : {"response"},
        resp : {[k \in {} |-> ""]}
               \cup {[events |-> es] : es \in SeqsUpTo(LogEvents, Min(MaxEventsSeen, LogLimit))}
               \cup FullResponses]

\* The invocations are followed up to the first one that collects diagnostics.
DiagObservedNext ==
  \/ /\ metaSeen = NoOutcome
     /\ \E ev \in Events(invocations + 1, EchoedIds), b \in Budgets : Invoke(ev, b)
  \/ \E out \in StartOutcomes : StartBuildReturns(out, 0)
  \/ \E out \in QueryOutcomes(svcStatus) : StatusQueryReturns(out, 0)
  \/ SleepEnds
  \/ \E out \in QueryOutcomes(svcStatus) : DiagMetaObserved(out, 0)
  \/ \E out \in SeenLogOutcomes : LogFetchObserved(out, 0)
  \/ \E s \in TerminalStatuses : BuildProgress(s)

DiagObservedSpec == Init /\ [][DiagObservedNext]_vars

(***************************************************************************)
(* The long run: the function as the construct deploys it, with the        *)
(* 15-minute timeout, and the poll loop followed to its end.  The calls    *)
(* return at once, so that the time of a run is the sum of its waits.      *)
(***************************************************************************)
\* timeout: Duration.minutes(15) of the provider function
LongBudgets == {900000}

LongRunStep ==
  \/ \E out \in StartOutcomes : StartBuildReturns(out, 0)
  \/ \E out \in QueryOutcomes(svcStatus) : StatusQueryReturns(out, 0)
  \/ SleepOver
  \/ \E out \in QueryOutcomes(svcStatus) : DiagMetaReturns(out, 0)
  \/ \E out \in LogOutcomes : LogFetchReturns(out, 0)

LongRunNext ==
  \/ \E ev \in Events(invocations + 1, EchoedIds), b \in LongBudgets : Invoke(ev, b)
  \/ LongRunStep
  \/ \E s \in TerminalStatuses : BuildProgress(s)

LongRunSpec == Init /\ [][LongRunNext]_vars

(***************************************************************************)
(* Invocations that run at the same time.  Each has its own locals; the     *)
(* module holds nothing but the two service clients (index.ts:10-11).  The  *)
(* build service gives every build it starts an id of its own and answers   *)
(* a query with the record of the build the query names.  The calls return  *)
(* at once and each invocation has its own clock.                           *)
(***************************************************************************)
\* the events of the invocations
ConcurrentEvents ==
       [RequestType : {"Create"}, RequestId : {RequestIdOf(1)},
        LogicalResourceId : LogicalIds, ProjectName : ProjectNames]
  \cup [RequestType : {"Delete"}, RequestId : {RequestIdOf(1)},
        LogicalResourceId : LogicalIds, PhysicalResourceId : {"L1"},
        ProjectName : ProjectNames]

\* the id the build service gives the n-th build of the project
BuildIdOf(n) == "proj:b" \o ToString(n)

\* BatchGetBuilds for id: the record of that build, when the service has it
BatchGetBuildsOf(id) ==
  IF id \in DOMAIN builds
  THEN [builds |-> <<[buildStatus |-> builds[id],
                      logs |-> [groupName |-> "g", streamName |-> id]]>>]
  ELSE [builds |-> <<>>]

\* Variant: the build id is kept at module level, where every invocation's
\* StartBuild overwrites it.
QueryIdLatest(r) ==
  LET ids == {runs[j].buildId : j \in RunIds} \cup {r.buildId}
      numbers == 1..Cardinality(RunIds)
  IN  BuildIdOf(CHOOSE n \in numbers :
                  BuildIdOf(n) \in ids /\ \A m \in numbers : m > n => BuildIdOf(m) \notin ids)

\* new BatchGetBuildsCommand({ ids: [buildId] }), in the poll loop and in the
\* diagnostics: the id is the invocation's const buildId
QueryIdOf(r) == r.buildId

\* the invocation ends with the response resp
RunEnds(r, resp) == [r EXCEPT !.pc = "done", !.response = resp]

\* the head of a loop iteration of the invocation with locals r
RunLoopHead(r) ==
  IF TimedOut(r.now, r.startTime, r.maxWaitTime)
  THEN RunEnds(r, ErrorResponse(r.physicalResourceId, TimeoutError(r.maxWaitTime)))
  ELSE [r EXCEPT !.pc = "polling", !.attempts = @ + 1, !.asking = QueryIdOf(r)]

\* the requests sent once invocation i has gone on to r
AskedAfter(i, r) ==
  IF r.pc \in {"polling", "diagMeta"}
  THEN asked \cup {[run |-> i, call |-> r.pc, id |-> r.asking]}
  ELSE asked

\* handler is invoked for the i-th time, while the others may still run
RunInvoke(i, ev, b) ==
  /\ runs[i].pc = "idle"
  /\ LET pid == PhysicalResourceIdOf(ev)
         r == [IdleRun EXCEPT !.event = ev, !.budget = b, !.physicalResourceId = pid]
     IN  runs' = [runs EXCEPT ![i] =
                    IF RunsBuild(ev.RequestType) THEN [r EXCEPT !.pc = "starting"]
                    ELSE IF IsDelete(ev.RequestType) THEN RunEnds(r, DeleteResponse(pid))
                    ELSE RunEnds(r, ErrorResponse(pid, UnknownRequestTypeError(ev)))]
  /\ UNCHANGED <<builds, asked, handlerVars, stackVars>>

\* StartBuild of invocation i settles: it is rejected, or the service has started
\* a new build and the poll loop begins
RunStartBuildReturns(i, rejected) ==
  /\ runs[i].pc = "starting"
  /\ IF rejected
     THEN /\ runs' = [runs EXCEPT ![i] =
                        RunEnds(@, ErrorResponse(@.physicalResourceId,
                                                 Error(CHOOSE m \in ServiceMessages : TRUE)))]
          /\ UNCHANGED <<builds, asked>>
     ELSE LET id == BuildIdOf(Cardinality(DOMAIN builds) + 1)
              resp == [build |-> [id |-> id, projectName |-> "proj"]]
              r == [runs[i] EXCEPT !.buildId = StartedBuildId(resp)[1],
                                   !.maxWaitTime = MaxWaitTimeOf(runs[i].budget - runs[i].now),
                                   !.startTime = runs[i].now]
          IN  /\ builds' = [b \in DOMAIN builds \cup {id} |->
                              IF b = id THEN "IN_PROGRESS" ELSE builds[b]]
              /\ runs' = [runs EXCEPT ![i] = RunLoopHead(r)]
              /\ asked' = AskedAfter(i, runs'[i])
  /\ UNCHANGED <<handlerVars, stackVars>>

\* the poll query of invocation i is answered
RunStatusQueryReturns(i) ==
  /\ runs[i].pc = "polling"
  /\ LET r == runs[i]
         found == FirstBuild(BatchGetBuildsOf(r.asking))
         status == StatusOf(found[1])
     IN  runs' = [runs EXCEPT ![i] =
           IF found = <<>>
           THEN RunEnds(r, ErrorResponse(r.physicalResourceId, NotFoundError(r.buildId)))
           ELSE IF KeepsPolling(status)
           THEN [r EXCEPT !.pc = "sleeping", !.buildStatus = status,
                          !.wait = WaitTimeOf(r.attempts)]
           ELSE IF IsJobFailure(status)
           THEN [r EXCEPT !.pc = "diagMeta", !.buildStatus = status,
                          !.asking = QueryIdOf(r)]
           ELSE RunEnds([r EXCEPT !.buildStatus = status],
                        SuccessResponse(r.physicalResourceId,
                                        [buildId |-> r.buildId, buildStatus |-> status]))]
  /\ asked' = AskedAfter(i, runs'[i])
  /\ UNCHANGED <<builds, handlerVars, stackVars>>

\* the sleep of invocation i is over
RunSleepOver(i) ==
  /\ runs[i].pc = "sleeping"
  /\ runs' = [runs EXCEPT ![i] = RunLoopHead([@ EXCEPT !.now = @ + runs[i].wait])]
  /\ asked' = AskedAfter(i, runs'[i])
  /\ UNCHANGED <<builds, handlerVars, stackVars>>

\* the metadata query of the diagnostics of invocation i is answered
RunDiagMetaReturns(i) ==
  /\ runs[i].pc = "diagMeta"
  /\ LET r == runs[i]
         found == FirstBuild(BatchGetBuildsOf(r.asking))
     IN  runs' = [runs EXCEPT ![i] =
           IF found # <<>> /\ HasLogLocation(found[1])
           THEN [r EXCEPT !.pc = "diagLogs"]
           ELSE RunEnds(r, ErrorResponse(r.physicalResourceId,
                                         BuildFailedError(r.buildStatus)))]
  /\ UNCHANGED <<builds, asked, handlerVars, stackVars>>

\* the log fetch of invocation i is answered
RunLogFetchReturns(i) ==
  /\ runs[i].pc = "diagLogs"
  /\ runs' = [runs EXCEPT ![i] =
                RunEnds(@, ErrorResponse(@.physicalResourceId,
                                         BuildFailedError(@.buildStatus)))]
  /\ UNCHANGED <<builds, asked, handlerVars, stackVars>>

\* a build ends on the build service
BuildEnds(id, s) ==
  /\ id \in DOMAIN builds
  /\ builds[id] = "IN_PROGRESS"
  /\ builds' = [builds EXCEPT ![id] = s]
  /\ UNCHANGED <<runs, asked, handlerVars, stackVars>>

ConcurrentNext ==
  \/ \E i \in RunIds, ev \in ConcurrentEvents, b \in Budgets : RunInvoke(i, ev, b)
  \/ \E i \in RunIds, rejected \in BOOLEAN : RunStartBuildReturns(i, rejected)
  \/ \E i \in RunIds : RunStatusQueryReturns(i)
  \/ \E i \in RunIds : RunSleepOver(i)
  \/ \E i \in RunIds : RunDiagMetaReturns(i)
  \/ \E i \in RunIds : RunLogFetchReturns(i)
  \/ \E id \in DOMAIN builds, s \in TerminalStatuses : BuildEnds(id, s)

ConcurrentSpec == Init /\ [][ConcurrentNext]_vars

(***************************************************************************)
(* The LiquibaseRDS construct (src/liquibase-rds.ts): what one `new        *)
(* LiquibaseRDS(stack, id, props)` adds to the stack, what a build of its   *)
(* project runs, and what CloudFormation sends to the build trigger when    *)
(* the stack is deployed.  An optional prop is <<>> when absent and <<v>>   *)
(* when given.  A text that the code joins or splits is a sequence of       *)
(* characters.                                                             *)
(***************************************************************************)
MaxCommands == 2         \* elements of liquibaseCommands
MaxSynths == 3           \* times the app is synthesized in one behaviour
MaxDeploys == 3          \* deployments in one behaviour

OneWeek == 7             \* RetentionDays.ONE_WEEK

BaseImage == "liquibase/liquibase:latest"
CacheRuleId == "LiquibaseRDSPullThroughCacheRule"
DefaultRegion == "us-east-1"
DefaultAccount == "123456789012"

\* The commands of the inputs: update, validate, and an update with two contexts.
CommandTexts == {<<"u">>, <<"v">>, <<"u", " ", "a", ",", "b">>}
CommandLists == UNION {[1..n -> CommandTexts] : n \in 0..MaxCommands}

ConstructIds == {"A", "B"}

\* The changelog directories of the developer's machine: the files in the order
\* readdirSync lists them, what each holds, and whether every entry can be read.
\* db2 differs from db1 in what a file holds, db4 in the name of the file, db5 in
\* how the same text is split across files; db3 is db1 with an entry that cannot
\* be read.
FileSystem ==
  [db1 |-> [files |-> <<[name |-> "a.xml", content |-> <<"x", "y">>]>>, readable |-> TRUE],
   db2 |-> [files |-> <<[name |-> "a.xml", content |-> <<"x", "z">>]>>, readable |-> TRUE],
   db3 |-> [files |-> <<[name |-> "a.xml", content |-> <<"x", "y">>]>>, readable |-> FALSE],
   db4 |-> [files |-> <<[name |-> "b.xml", content |-> <<"x", "y">>]>>, readable |-> TRUE],
   db5 |-> [files |-> <<[name |-> "a.xml", content |-> <<"x">>],
                        [name |-> "b.xml", content |-> <<"y">>]>>, readable |-> TRUE]]

\* aws:region and aws:account of the context (or CDK_DEFAULT_REGION and
\* CDK_DEFAULT_ACCOUNT of the environment), each set or not
SynthEnvs ==
  {[k \in {} |-> ""], [region |-> "eu-west-1"], [account |-> "111122223333"],
   [region |-> "eu-west-1", account |-> "111122223333"]}

\* LiquibaseRDSProps, for the synthesis of the resources: every combination of
\* the props that decide which resources exist, with one command
ResourceProps ==
  [dockerHubCredentialsArn : {<<>>, <<"">>, <<"arn:dockerhub">>},
   enableLogging : {<<>>, <<TRUE>>, <<FALSE>>},
   logRetention : {<<>>, <<30>>},
   liquibaseCommands : {<< <<"u">> >>},
   changelogPath : {"db1"},
   autoRun : {<<FALSE>>}]

\* LiquibaseRDSProps, for the build: every list of commands, the rest left out
CommandProps ==
  [dockerHubCredentialsArn : {<<>>},
   enableLogging : {<<>>},
   logRetention : {<<>>},
   liquibaseCommands : CommandLists,
   changelogPath : {"db1"},
   autoRun : {<<FALSE>>}]

SynthProps == ResourceProps \cup CommandProps

\* LiquibaseRDSProps, for the deployments of the build trigger
DeployProps ==
  [dockerHubCredentialsArn : {<<>>},
   enableLogging : {<<>>},
   logRetention : {<<>>},
   liquibaseCommands : {<< <<"u">> >>, << <<"u">>, <<"v">> >>},
   changelogPath : DOMAIN FileSystem,
   autoRun : {<<>>, <<TRUE>>, <<FALSE>>}]

\* Variant: an empty string counts as credentials.
CredentialsDefined(props) == props.dockerHubCredentialsArn # <<>>

\* if (props.dockerHubCredentialsArn)
CredentialsProvided(props) ==
  props.dockerHubCredentialsArn # <<>> /\ props.dockerHubCredentialsArn[1] # ""

\* Variant: the rule is created inside the construct.
RulePathInConstruct(id) == id \o "/" \o CacheRuleId

\* new CfnResource(stack, 'LiquibaseRDSPullThroughCacheRule', ...) by the construct
\* id: the path of the new rule below the stack, of which it is a child
RulePath(id) == CacheRuleId

\* getOrCreatePullThroughCacheRule of the construct id: the rule found among the
\* children of the stack by its id, or else the rule created
GetOrCreatePullThroughCacheRule(id, children) ==
  IF CacheRuleId \in children THEN CacheRuleId ELSE RulePath(id)

\* tryGetContext('aws:region') || process.env.CDK_DEFAULT_REGION || 'us-east-1'
RegionOf(env) == IF "region" \in DOMAIN env THEN env.region ELSE DefaultRegion
\* tryGetContext('aws:account') || process.env.CDK_DEFAULT_ACCOUNT || '123456789012'
AccountOf(env) == IF "account" \in DOMAIN env THEN env.account ELSE DefaultAccount

\* getDockerImage
GetDockerImage(props, env) ==
  IF CredentialsProvided(props)
  THEN AccountOf(env) \o ".dkr.ecr." \o RegionOf(env)
         \o ".amazonaws.com/liquibase-rds-cdk-cache/" \o BaseImage
  ELSE BaseImage

\* Variant: logging is on only when it is asked for.
LoggingEnabledIfTrue(props) == props.enableLogging = <<TRUE>>

\* props.enableLogging !== false
LoggingEnabled(props) == props.enableLogging # <<FALSE>>

\* new LogGroup(this, 'LogGroup', {...})
NewLogGroup(id, props) ==
  [logGroupName |-> "/aws/codebuild/" \o id \o "-liquibase",
   retention |-> IF props.logRetention # <<>> THEN props.logRetention[1] ELSE OneWeek]

\* Array.prototype.join(',')
RECURSIVE Join(_)
Join(list) ==
  IF list = <<>> THEN <<>>
  ELSE IF Len(list) = 1 THEN list[1]
  ELSE list[1] \o <<",">> \o Join(Tail(list))

\* the text cut at every comma, empty pieces included
RECURSIVE SplitAll(_)
SplitAll(text) ==
  IF text = <<>> THEN << <<>> >>
  ELSE LET rest == SplitAll(Tail(text))
       IN  IF Head(text) = "," THEN << <<>> >> \o rest
           ELSE << <<Head(text)>> \o rest[1] >> \o Tail(rest)

\* IFS="," read -ra COMMANDS <<< "$LIQUIBASE_COMMANDS": the fields between the
\* commas; a comma at the end of the text ends the last field and opens no other.
ReadCommands(text) ==
  LET pieces == SplitAll(text)
  IN  IF pieces[Len(pieces)] = <<>> THEN SubSeq(pieces, 1, Len(pieces) - 1) ELSE pieces

\* what the hash has been fed once hash.update(content) was called for every
\* file: the contents one after the other
RECURSIVE HashInput(_)
HashInput(files) ==
  IF files = <<>> THEN <<>> ELSE Head(files).content \o HashInput(Tail(files))

\* hash.digest('hex') of a SHA-256 hash fed with text: two digests are equal
\* exactly when the texts are
Sha256Hex(text) == "sha256:" \o Text(text)

\* calculateChangelogHash at time t: the digest of the files, or the time when
\* reading fails
CalculateChangelogHash(path, t) ==
  IF FileSystem[path].readable THEN Sha256Hex(HashInput(FileSystem[path].files))
  ELSE ToString(t)

\* props.autoRun !== false
AutoRunEnabled(props) == props.autoRun # <<FALSE>>

\* the properties of BuildTriggerResource
TriggerProperties(props, projectName, t) ==
  [ProjectName |-> projectName,
   Trigger |-> CalculateChangelogHash(props.changelogPath, t) \o "|"
                 \o Text(Join(props.liquibaseCommands)) \o "|" \o projectName]

\* constructor: the resources of one construct, synthesized at time t into a
\* stack that has the children `children`
LiquibaseRDS(id, props, env, children, t) ==
  LET projectName == id \o "-liquibase"
      logGroup == IF LoggingEnabled(props) THEN <<NewLogGroup(id, props)>> ELSE <<>>
  IN  [id |-> id,
       props |-> props,
       pullThroughCacheRule |-> IF CredentialsProvided(props)
                               THEN <<GetOrCreatePullThroughCacheRule(id, children)>>
                               ELSE <<>>,
       createdRule |-> CredentialsProvided(props) /\ CacheRuleId \notin children,
       logGroup |-> logGroup,
       project |-> [projectName |-> projectName,
                    image |-> GetDockerImage(props, env),
                    LIQUIBASE_COMMANDS |-> Join(props.liquibaseCommands),
                    logging |-> IF logGroup # <<>>
                                THEN <<[cloudWatch |-> logGroup[1].logGroupName]>>
                                ELSE <<>>],
       trigger |-> IF AutoRunEnabled(props)
                   THEN <<TriggerProperties(props, projectName, t)>> ELSE <<>>]

\* the children of the stack once the construct is in it
ChildrenAfter(id, props, children) ==
  IF CredentialsProvided(props)
  THEN children \cup {GetOrCreatePullThroughCacheRule(id, children)}
  ELSE children

IdsOf(cs) == {cs[k].id : k \in 1..Len(cs)}

\* new App(); new Stack(app, ...)
NewApp(env) ==
  /\ synthEnv' = env
  /\ constructs' = <<>>
  /\ stackChildren' = {}
  /\ ran' = <<>>
  /\ UNCHANGED <<deployed, lastEvents, clock, deploys, handlerVars, concurrentVars>>

\* new LiquibaseRDS(stack, id, props)
AddConstruct(id, props) ==
  /\ id \notin IdsOf(constructs)
  /\ constructs' = Append(constructs, LiquibaseRDS(id, props, synthEnv, stackChildren, clock))
  /\ stackChildren' = ChildrenAfter(id, props, stackChildren)
  /\ UNCHANGED <<synthEnv, ran, deployed, lastEvents, clock, deploys, handlerVars, concurrentVars>>

\* A build of the k-th construct's project runs the build phase of the buildspec:
\* one liquibase invocation for each field read from LIQUIBASE_COMMANDS.
BuildRuns(k) ==
  /\ k \in 1..Len(constructs)
  /\ ran' = <<[project |-> constructs[k].project.projectName,
               commands |-> ReadCommands(constructs[k].project.LIQUIBASE_COMMANDS)]>>
  /\ UNCHANGED <<synthEnv, constructs, stackChildren, deployed, lastEvents, clock,
                 deploys, handlerVars, concurrentVars>>

SynthNext ==
  \/ \E env \in SynthEnvs : NewApp(env)
  \/ \E id \in ConstructIds, props \in SynthProps : AddConstruct(id, props)
  \/ \E k \in 1..Len(constructs) : BuildRuns(k)

SynthSpec == Init /\ [][SynthNext]_vars

\* The app with one construct is synthesized anew, some time after the last time.
Synth(props) ==
  /\ clock < MaxSynths
  /\ clock' = clock + 1
  /\ synthEnv' = [k \in {} |-> ""]
  /\ constructs' = <<LiquibaseRDS("A", props, synthEnv', {}, clock')>>
  /\ stackChildren' = ChildrenAfter("A", props, {})
  /\ ran' = <<>>
  /\ UNCHANGED <<deployed, lastEvents, deploys, handlerVars, concurrentVars>>

\* What CloudFormation sends for a custom resource whose properties were `old`
\* (<<>> when it did not exist) and are `new` in the template being deployed:
\* Create for a new resource, Update when the properties differ, Delete for a
\* removed resource, and nothing for a resource whose properties are the same.
RequestTypeFor(old, new) ==
  IF old = <<>> /\ new # <<>> THEN <<"Create">>
  ELSE IF old # <<>> /\ new = <<>> THEN <<"Delete">>
  ELSE IF old # <<>> /\ new # <<>> /\ old # new THEN <<"Update">>
  ELSE <<>>

\* cdk deploy: CloudFormation brings the stack to the synthesized template and
\* invokes the build trigger for every trigger resource it creates, updates or
\* deletes.
Deploy ==
  /\ constructs # <<>>
  /\ deploys < MaxDeploys
  /\ deploys' = deploys + 1
  /\ LET new == [id \in IdsOf(constructs) |->
                   LET c == constructs[CHOOSE k \in 1..Len(constructs) : constructs[k].id = id]
                   IN  c.trigger]
         old == [id \in IdsOf(constructs) \cup DOMAIN deployed |->
                   IF id \in DOMAIN deployed THEN <<deployed[id]>> ELSE <<>>]
         sent == {id \in DOMAIN old :
                    RequestTypeFor(old[id], IF id \in DOMAIN new THEN new[id] ELSE <<>>) # <<>>}
     IN  /\ lastEvents' = [id \in sent |->
                             RequestTypeFor(old[id],
                                            IF id \in DOMAIN new THEN new[id] ELSE <<>>)[1]]
         /\ deployed' = [id \in {i \in DOMAIN new : new[i] # <<>>} |-> new[id][1]]
  /\ UNCHANGED <<synthEnv, constructs, stackChildren, ran, clock, handlerVars, concurrentVars>>

DeployNext ==
  \/ \E props \in DeployProps : Synth(props)
  \/ Deploy

DeploySpec == Init /\ [][DeployNext]_vars

(***************************************************************************)
(* Properties                                                              *)
(***************************************************************************)
Done == pc = "done"
IsCreateOrUpdate == event.RequestType \in {"Create", "Update"}
Failed == "Reason" \in DOMAIN response
\* StartBuild resolved, and its response holds no usable build id
StartedWithoutId ==
  /\ startOutcome.kind = "response"
  /\ \/ "build" \notin DOMAIN startOutcome.resp
     \/ "id" \notin DOMAIN startOutcome.resp.build
     \/ startOutcome.resp.build.id = ""

\* C1: in a Create or Update invocation no error escapes handler, and whenever an
\* error was raised on the start/poll/diagnose path the invocation has ended with
\* a response whose Reason is that error's message (for a rejected start: the
\* message the service rejected with); a response without Reason is given only
\* after the poll loop observed SUCCEEDED.
C1_FailuresBecomeReasons ==
  /\ pc # "raised"
  /\ (IsCreateOrUpdate /\ thrown # <<>>) =>
        /\ Done
        /\ Failed
        /\ response.Reason = thrown[1].message
        /\ startOutcome.kind = "throw" => response.Reason = startOutcome.message
  /\ (IsCreateOrUpdate /\ Done /\ thrown = <<>>) =>
        lastPoll = "status" /\ buildStatus = "SUCCEEDED"

\* a Create invocation whose poll loop timed out has been answered
C1_Witness ==
  /\ Done /\ event.RequestType = "Create" /\ thrown # <<>>
  /\ response.Reason = "Build timeout: exceeded maximum wait time of 65000ms"

\* C2: from its first step to its response, a Create or Update invocation has
\* sent exactly one StartBuild request, also when the start was rejected or
\* returned no build id.
C2_ExactlyOneStart == IsCreateOrUpdate => nStart = 1

\* an Update whose start was rejected has ended with one start sent
C2_Witness ==
  /\ Done /\ event.RequestType = "Update" /\ startOutcome.kind = "throw" /\ nStart = 1

\* C3: a Delete invocation is answered in its first step with a response that
\* has no Reason and empty Data, and it has sent no StartBuild, no status query
\* and no log fetch.
C3_DeleteIsNoOp ==
  event.RequestType = "Delete" =>
    /\ Done
    /\ nStart = 0 /\ nQuery = 0 /\ nDiagMeta = 0 /\ nLogFetch = 0
    /\ DOMAIN response = {"PhysicalResourceId", "Data"}
    /\ response.Data = EmptyData

\* a Delete that follows an earlier invocation has been answered
C3_Witness == Done /\ event.RequestType = "Delete" /\ invocations = 2

\* C4: every response to a Create carries the event's LogicalResourceId as
\* PhysicalResourceId, and every response to an Update or Delete carries the
\* event's PhysicalResourceId, on success and on failure.
C4_TokenOfEvent ==
  Done =>
    /\ event.RequestType = "Create" =>
         response.PhysicalResourceId = event.LogicalResourceId
    /\ event.RequestType \in {"Update", "Delete"} =>
         response.PhysicalResourceId = event.PhysicalResourceId

\* a failed Update whose token differs from its logical name has been answered
C4_Witness ==
  /\ Done /\ event.RequestType = "Update" /\ Failed
  /\ event.PhysicalResourceId # event.LogicalResourceId
  /\ response.PhysicalResourceId = "P1"

\* C5: while the invocations are a Create followed by Updates/Deletes that each
\* carry the PhysicalResourceId of the previous response, every response carries
\* the PhysicalResourceId the Create was answered with.
C5_TokenStableAlongChain ==
  (chain = "ok" /\ Done) => response.PhysicalResourceId = chainToken

\* a failed Update echoing the token of the Create before it has been answered
C5_Witness ==
  /\ chain = "ok" /\ Done /\ invocations = 2
  /\ event.RequestType = "Update" /\ Failed

\* C6: when the poll loop of a Create or Update has ended with a terminal status
\* other than SUCCEEDED, the response has a Reason and logBuildFailureDetails was
\* entered (its metadata query was sent) before the response.
C6_JobFailureIsDiagnosed ==
  (/\ IsCreateOrUpdate /\ Done /\ lastPoll = "status"
   /\ buildStatus \notin {"IN_PROGRESS", "SUCCEEDED"}) =>
     Failed /\ nDiagMeta >= 1

\* a build that ended STOPPED has been diagnosed and answered
C6_Witness ==
  Done /\ lastPoll = "status" /\ buildStatus = "STOPPED" /\ nDiagMeta = 1 /\ Failed

\* C7: when the poll queries were answered IN_PROGRESS k times and then
\* SUCCEEDED, exactly k+1 status queries and no diagnostics call were sent, and
\* the response has no Reason and its Data holds the build id StartBuild
\* returned and BuildStatus SUCCEEDED.
C7_SuccessAfterKPolls ==
  (IsCreateOrUpdate /\ Done /\ lastPoll = "status" /\ buildStatus = "SUCCEEDED") =>
     /\ nQuery = nInProgress + 1
     /\ nDiagMeta = 0 /\ nLogFetch = 0
     /\ DOMAIN response = {"PhysicalResourceId", "Data"}
     /\ response.Data = [BuildId |-> startOutcome.resp.build.id, BuildStatus |-> "SUCCEEDED"]

\* two IN_PROGRESS answers, then SUCCEEDED: three status queries
C7_Witness ==
  /\ Done /\ buildStatus = "SUCCEEDED" /\ nInProgress = 2 /\ nQuery = 3
  /\ ~Failed

\* C8: when StartBuild resolved without a usable build id, the invocation has
\* ended with a failure response whose Reason says that no build id was
\* returned, and no status query was sent.
C8_NoBuildIdFailsAtOnce ==
  StartedWithoutId =>
    /\ Done
    /\ Failed
    /\ response.Reason = "Failed to start build: No build ID returned from CodeBuild"
    /\ response.Data = EmptyData
    /\ nQuery = 0

\* a start that resolved with an empty build id has been answered
C8_Witness ==
  /\ Done /\ startOutcome.kind = "response"
  /\ "build" \in DOMAIN startOutcome.resp /\ "id" \in DOMAIN startOutcome.resp.build
  /\ startOutcome.resp.build.id = ""

\* C9: when a poll query returned no build record, the invocation has ended
\* with that query as its last one, with a failure response whose Reason is the
\* not-found message, and without any diagnostics call.
C9_NotFoundIsFatal ==
  lastPoll = "notfound" =>
    /\ Done
    /\ Failed
    /\ response.Reason = "Build not found: " \o buildId
    /\ nQuery = nInProgress + 1
    /\ nDiagMeta = 0 /\ nLogFetch = 0

\* the second poll query found no build
C9_Witness == Done /\ lastPoll = "notfound" /\ nQuery = 2

\* C10: with time advancing and every external call returning, every invocation
\* that has begun ends with a response, and when every poll query was answered
\* IN_PROGRESS and the build is still in progress that response is the timeout
\* failure.
C10_NeverPollsForever ==
  /\ [](pc \in {"starting", "polling", "sleeping", "diagMeta", "diagLogs"} => <>Done)
  /\ []((IsCreateOrUpdate /\ Done /\ nQuery >= 1 /\ nInProgress = nQuery
            /\ svcStatus = "IN_PROGRESS") =>
          /\ Failed
          /\ response.Reason =
               "Build timeout: exceeded maximum wait time of " \o ToString(maxWaitTime) \o "ms")

\* a build that stayed in progress through eight status queries was given up
C10_Witness ==
  /\ Done /\ svcStatus = "IN_PROGRESS" /\ nQuery = 8 /\ nInProgress = 8 /\ Failed
  /\ maxWaitTime = 65000

(***************************************************************************)
(* The poll loop's clock                                                   *)
(***************************************************************************)
\* handler has answered with the timeout error of the poll loop
TimedOutResponse ==
  /\ Done /\ Failed
  /\ response.Reason =
       "Build timeout: exceeded maximum wait time of " \o ToString(maxWaitTime) \o "ms"

\* the poll loop was entered: StartBuild returned a build id
PollingBegan == buildId # ""

\* context.getRemainingTimeInMillis() as waitForBuildCompletion read it
RemainingAtPollStart == budget - startTime

C12_ReturnsWithinBudget ==
  Done => now < budget

\* C13: the maximum wait is at most the remaining time at the start of polling
\* minus 30000 ms.
C13_MaxWaitLeavesBuffer ==
  PollingBegan => maxWaitTime <= RemainingAtPollStart - 30000

\* C14: when the remaining time minus 30000 ms is at most 60000 ms as polling
\* begins, no status query is sent and handler answers with a failure.
C14_FailsFastBelowFloor ==
  (PollingBegan /\ RemainingAtPollStart - 30000 <= 60000) =>
    /\ nQuery = 0
    /\ Done => Failed

\* C15: the waits of one poll loop never decrease and none exceeds 30000 ms.
C15_WaitsMonotoneAndCapped ==
  \A i \in 1..Len(waits) :
    /\ waits[i] <= 30000
    /\ i < Len(waits) => waits[i] <= waits[i + 1]

\* a loop that climbed to the cap and stayed there
C15_Witness ==
  /\ Len(waits) >= 26
  /\ waits[24] = 29000 /\ waits[25] = 30000 /\ waits[26] = 30000

\* C16 as stated: the wait after the n-th status query is
\* min(5000 + (n-1)*1000, 30000), so that three queries are 5 s and 6 s apart.
C16_WaitFromBase ==
  \A n \in 1..Len(waits) :
    waits[n] = IF 5000 + (n - 1) * 1000 < 30000 THEN 5000 + (n - 1) * 1000 ELSE 30000

\* C16: attempts is incremented before the query, so the wait after the n-th
\* status query is min(5000 + n*1000, 30000); three queries are 6 s and 7 s apart.
C16_WaitFromAttempts ==
  \A n \in 1..Len(waits) :
    waits[n] = IF 5000 + n * 1000 < 30000 THEN 5000 + n * 1000 ELSE 30000

\* two answers IN_PROGRESS, then SUCCEEDED at the third query
C16_Witness ==
  /\ Done /\ ~Failed /\ nQuery = 3 /\ nInProgress = 2
  /\ response.Data.BuildStatus = "SUCCEEDED"
  /\ waits = <<6000, 7000>>

(***************************************************************************)
(* Diagnostics and the Reason of a job failure                             *)
(***************************************************************************)
\* whether the string sub occurs in the string s
Contains(s, sub) ==
  \E i \in 1..(Len(s) - Len(sub) + 1) : SubSeq(s, i, i + Len(sub) - 1) = sub

\* C17: whatever fails inside the diagnostics (the metadata query, the log
\* fetch, missing fields), no error escapes handler and the response is the job
\* failure with Reason 'Build failed with status: <status>'.
C17_DiagnosticsAreBestEffort ==
  nDiagMeta >= 1 =>
    /\ pc # "raised"
    /\ Done => /\ Failed
               /\ response.Reason = "Build failed with status: " \o buildStatus

\* the metadata query of the diagnostics was rejected and the job failure answered
C17_Witness ==
  /\ Done /\ nDiagMeta = 1 /\ nLogFetch = 0 /\ diagCaught = 1
  /\ response.Reason = "Build failed with status: FAILED"

\* the log fetch of the diagnostics resolved with lines that were kept
LogLinesFetched == Done /\ nLogFetch = 1 /\ diagCaught = 0 /\ logged # <<>>

\* the log fetch of the diagnostics was rejected
LogFetchThrew == Done /\ nLogFetch = 1 /\ diagCaught = 1

C19_ReasonNotesMissingDiagnostics ==
  LogFetchThrew =>
    /\ Failed
    /\ Contains(response.Reason, "Build failed with status: " \o buildStatus)
    /\ response.Reason # "Build failed with status: " \o buildStatus

\* C19: when the log fetch throws, the error is caught and printed; handler does
\* not raise, and the Reason is 'Build failed with status: <status>' with no
\* note about the diagnostics: the same Reason as when the log fetch succeeded.
C19_ReasonUnchangedByLogFailure ==
  /\ nLogFetch >= 1 =>
       /\ pc # "raised"
       /\ Done => /\ Failed
                  /\ response.Reason = "Build failed with status: " \o buildStatus
  /\ LogFetchThrew => thrown = <<Error("Build failed with status: " \o buildStatus)>>

\* the log fetch for a build that ended STOPPED was rejected
C19_Witness ==
  /\ LogFetchThrew /\ buildStatus = "STOPPED"
  /\ response.Reason = "Build failed with status: STOPPED"

(***************************************************************************)
(* The build on the service                                                *)
(***************************************************************************)
\* C20: no step of handler changes the state of a started build on the build
\* service; in particular the build a timed-out watcher leaves behind is in the
\* state it was in, in progress if it was in progress.
C20_HandlerNeverStopsBuild ==
  [][(svcStatus # "NONE" /\ invocations' = invocations /\ pc' # pc) =>
        svcStatus' = svcStatus]_vars

\* an Update whose watcher timed out left its build in progress
C20_Witness ==
  /\ TimedOutResponse /\ event.RequestType = "Update"
  /\ svcStatus = "IN_PROGRESS" /\ nInProgress = nQuery /\ nQuery = 7

(***************************************************************************)
(* The poll loop and the deadline                                          *)
(***************************************************************************)
\* the invocation waits for an external call or for the sleep
InFlight == pc \in {"starting", "polling", "sleeping", "diagMeta", "diagLogs"}

\* C25: no sleep is started whose end lies after the deadline (polling start +
\* maxWaitTime) unless a final status check follows it: a sleep that ends after
\* the deadline is followed by a status query.
C25_SleepClampedToDeadline ==
  [][(pc = "sleeping" /\ pc' # pc /\ now' > startTime + maxWaitTime) =>
        (pc' = "polling" /\ nQuery' = nQuery + 1)]_vars

\* C26: no status query is sent once the time since polling began exceeds
\* maxWaitTime: a query in flight was sent within the window, and the loop head
\* reached after the window answers with the timeout error and sends nothing.
C26_NoQueryAfterDeadline ==
  /\ [](pc = "polling" => now - startTime <= maxWaitTime)
  /\ [][(pc = "sleeping" /\ pc' # pc /\ now' - startTime > maxWaitTime) =>
          /\ nQuery' = nQuery
          /\ pc' = "done"
          /\ response'.Reason =
               "Build timeout: exceeded maximum wait time of "
                 \o ToString(maxWaitTime) \o "ms"]_vars

\* a window of 64000 ms was left after 65000 ms, and seven queries had been sent
C26_Witness ==
  /\ TimedOutResponse /\ maxWaitTime = 64000 /\ now - startTime = 65000
  /\ nQuery = 7 /\ attempts = 7

\* C27: whenever handler reports the timeout, the build is still running on the
\* build service at that moment.
C27_TimeoutOnlyWhileRunning ==
  TimedOutResponse => svcStatus = "IN_PROGRESS"

\* C28: once a poll query was answered with a status other than IN_PROGRESS, no
\* further poll query is sent and the status of the loop stays what it is,
\* whatever the metadata query of the diagnostics returns; the response reports
\* that status.
C28_FirstTerminalStatusIsFinal ==
  /\ [][(lastPoll = "status" /\ buildStatus # "IN_PROGRESS"
            /\ invocations' = invocations) =>
          (nQuery' = nQuery /\ buildStatus' = buildStatus /\ pc' # "polling")]_vars
  /\ []((Done /\ lastPoll = "status" /\ buildStatus # "IN_PROGRESS") =>
          IF buildStatus = "SUCCEEDED"
          THEN ~Failed /\ response.Data.BuildStatus = "SUCCEEDED"
          ELSE Failed /\ response.Reason = "Build failed with status: " \o buildStatus)

\* the loop saw FAILED at its second query; the build was STOPPED on the service
\* when the diagnostics queried it, and FAILED is what the response reports
C28_Witness ==
  /\ Done /\ lastPoll = "status" /\ nQuery = 2 /\ nDiagMeta = 1 /\ nLogFetch = 0
  /\ diagCaught = 0
  /\ buildStatus = "FAILED" /\ svcStatus = "STOPPED"
  /\ response.Reason = "Build failed with status: FAILED"

\* C29: when a poll query is answered with a build record, the loop sleeps and
\* queries again if and only if the observed status is IN_PROGRESS; every other
\* status ends the loop, and a record without a status is observed as FAILED and
\* takes the job-failure path.
C29_PollsWhileInProgress ==
  /\ [](pc = "sleeping" => (lastPoll = "status" /\ buildStatus = "IN_PROGRESS"))
  /\ [][(pc = "polling" /\ pc' # pc /\ lastPoll' = "status") =>
          /\ (pc' = "sleeping") = (buildStatus' = "IN_PROGRESS")
          /\ buildStatus' \in {svcStatus, "FAILED"}
          /\ buildStatus' # svcStatus => (buildStatus' = "FAILED" /\ pc' = "diagMeta")
          /\ buildStatus' \notin {"IN_PROGRESS", "SUCCEEDED"} => pc' = "diagMeta"
          /\ buildStatus' = "SUCCEEDED" => pc' = "done"]_vars

\* a record without a status, for a build still running on the service, was
\* observed as FAILED at the second query and is being diagnosed
C29_Witness ==
  /\ pc = "diagMeta" /\ lastPoll = "status" /\ nQuery = 2 /\ nInProgress = 1
  /\ buildStatus = "FAILED" /\ svcStatus = "IN_PROGRESS"

\* C30: in an invocation StartBuild has settled before any status query is sent,
\* the diagnostics' calls are sent only after the last poll query, the metadata
\* query before the log fetch, and the response is given only when no call is
\* in flight, so that nothing follows it.
C30_CallsAreOrdered ==
  /\ InFlight => (response = NoResponse /\ thrown = <<>>)
  /\ pc = "starting" => (nStart = 1 /\ nQuery = 0 /\ nDiagMeta = 0 /\ nLogFetch = 0)
  /\ nQuery >= 1 => (nStart = 1 /\ startOutcome.kind = "response")
  /\ pc \in {"polling", "sleeping"} => (nDiagMeta = 0 /\ nLogFetch = 0)
  /\ nDiagMeta >= 1 => (nQuery >= 1 /\ lastPoll = "status")
  /\ pc = "diagMeta" => nLogFetch = 0
  /\ nLogFetch >= 1 => nDiagMeta = 1
  /\ Done => (nStart <= 1 /\ nDiagMeta <= 1 /\ nLogFetch <= 1)

\* an Update ran all four kinds of call and then answered
C30_Witness ==
  /\ Done /\ Failed /\ event.RequestType = "Update"
  /\ nStart = 1 /\ nQuery = 3 /\ nDiagMeta = 1 /\ nLogFetch = 1

(***************************************************************************)
(* The construct and its deployments                                       *)
(***************************************************************************)
\* the constructs of the stack
Constructs == {constructs[k] : k \in 1..Len(constructs)}

\* the construct was given Docker Hub credentials that are not empty
HasCredentials(c) == c.props.dockerHubCredentialsArn \notin {<<>>, <<"">>}

\* the URI of the Liquibase image in the pull-through cache of the account and
\* region the stack is synthesized for
CachedImageUri ==
  (IF "account" \in DOMAIN synthEnv THEN synthEnv.account ELSE "123456789012")
    \o ".dkr.ecr."
    \o (IF "region" \in DOMAIN synthEnv THEN synthEnv.region ELSE "us-east-1")
    \o ".amazonaws.com/liquibase-rds-cdk-cache/liquibase/liquibase:latest"

\* C21: with autoRun enabled, every deployment of the stack sends an event to the
\* build trigger that leads to a build start (a Create or an Update), also when
\* nothing the trigger is computed from has changed.
C21_EveryDeploymentRunsBuild ==
  [][deploys' = deploys + 1 =>
       \A c \in Constructs :
         c.props.autoRun # <<FALSE>> =>
           (c.id \in DOMAIN lastEvents' /\ lastEvents'[c.id] \in {"Create", "Update"})]_vars

\* the Trigger property of the one construct of the app
TriggerOf(cs) == cs[1].trigger[1].Trigger

\* C35: from one synthesis to the next, with the commands and the project name
\* the same, the Trigger property changes when the changelog directory differs
\* (in what a file holds, in the name of a file, or in how the text is split
\* across files) and is the same when the directory is unchanged.
C35_TriggerFollowsChangelog ==
  [][(/\ clock' = clock + 1
      /\ constructs # <<>> /\ constructs[1].trigger # <<>> /\ constructs'[1].trigger # <<>>
      /\ constructs'[1].props.liquibaseCommands = constructs[1].props.liquibaseCommands) =>
       LET before == FileSystem[constructs[1].props.changelogPath]
           after == FileSystem[constructs'[1].props.changelogPath]
       IN  (TriggerOf(constructs') = TriggerOf(constructs)) <=> (after = before)]_vars

\* C22 as stated: a construct creates a pull-through cache rule if and only if it
\* was given credentials; without them no rule exists in the stack and the image
\* is 'liquibase/liquibase:latest', with them the image is the cached URI.
C22_RuleIffCredentials ==
  \A c \in Constructs :
    /\ c.createdRule = HasCredentials(c)
    /\ ~HasCredentials(c) =>
         /\ "LiquibaseRDSPullThroughCacheRule" \notin stackChildren
         /\ c.project.image = "liquibase/liquibase:latest"
    /\ HasCredentials(c) => c.project.image = CachedImageUri

\* C22: a construct has a pull-through cache rule if and only if it was given
\* credentials; it creates the rule unless an earlier construct of the stack did,
\* whose rule it then shares.  The stack holds the one rule if and only if one of
\* its constructs was given credentials.  Without credentials the image is
\* 'liquibase/liquibase:latest', with them the cached URI.
C22_RuleSharedInStack ==
  /\ ("LiquibaseRDSPullThroughCacheRule" \in stackChildren)
       = (\E c \in Constructs : HasCredentials(c))
  /\ \A k \in 1..Len(constructs) :
       LET c == constructs[k]
       IN  /\ (c.pullThroughCacheRule # <<>>) = HasCredentials(c)
           /\ c.createdRule =
                (HasCredentials(c) /\ \A j \in 1..(k - 1) : ~HasCredentials(constructs[j]))
           /\ ~HasCredentials(c) => c.project.image = "liquibase/liquibase:latest"
           /\ HasCredentials(c) => c.project.image = CachedImageUri

\* two constructs with credentials in one stack synthesized for eu-west-1: the
\* first created the rule, the second shares it
C22_Witness ==
  /\ Len(constructs) = 2 /\ "region" \in DOMAIN synthEnv /\ "account" \notin DOMAIN synthEnv
  /\ constructs[1].createdRule /\ ~constructs[2].createdRule
  /\ constructs[2].pullThroughCacheRule = <<"LiquibaseRDSPullThroughCacheRule">>
  /\ constructs[2].project.image =
       "123456789012.dkr.ecr.eu-west-1.amazonaws.com/liquibase-rds-cdk-cache/liquibase/liquibase:latest"

\* C34: once a construct with credentials is in the stack, the stack holds exactly
\* one pull-through cache rule, 'LiquibaseRDSPullThroughCacheRule', however many
\* constructs with credentials were added and in whatever order, and the
\* pullThroughCacheRule of each of them is that rule.
C34_OneRuleForAll ==
  LET withCredentials == {c \in Constructs : HasCredentials(c)}
  IN  withCredentials # {} =>
        /\ stackChildren = {"LiquibaseRDSPullThroughCacheRule"}
        /\ \A c \in withCredentials :
             c.pullThroughCacheRule = <<"LiquibaseRDSPullThroughCacheRule">>

\* B was added before A, both with credentials
C34_Witness ==
  /\ Len(constructs) = 2 /\ constructs[1].id = "B" /\ constructs[2].id = "A"
  /\ HasCredentials(constructs[1]) /\ HasCredentials(constructs[2])
  /\ constructs[1].pullThroughCacheRule = constructs[2].pullThroughCacheRule
  /\ Cardinality(stackChildren) = 1

\* C23: a construct has exactly one log group, named '/aws/codebuild/<id>-liquibase'
\* and kept one week unless a retention is given, and its project logs to it;
\* unless enableLogging is false: then it has no log group and the project has
\* no CloudWatch logging configuration.
C23_LogGroupUnlessDisabled ==
  \A c \in Constructs :
    IF c.props.enableLogging = <<FALSE>>
    THEN c.logGroup = <<>> /\ c.project.logging = <<>>
    ELSE /\ Len(c.logGroup) = 1
         /\ c.logGroup[1].logGroupName = "/aws/codebuild/" \o c.id \o "-liquibase"
         /\ c.logGroup[1].retention =
              (IF c.props.logRetention = <<>> THEN 7 ELSE c.props.logRetention[1])
         /\ c.project.logging = <<[cloudWatch |-> "/aws/codebuild/" \o c.id \o "-liquibase"]>>

\* a construct that was told nothing about logging beside one with logging off
C23_Witness ==
  /\ Len(constructs) = 2
  /\ constructs[1].id = "B" /\ constructs[1].props.enableLogging = <<>>
  /\ constructs[1].logGroup = <<[logGroupName |-> "/aws/codebuild/B-liquibase", retention |-> 7]>>
  /\ constructs[2].props.enableLogging = <<FALSE>> /\ constructs[2].logGroup = <<>>

\* C24: for every list liquibaseCommands, LIQUIBASE_COMMANDS is the elements
\* joined by ',', reading it back in the buildspec yields the list, and a build
\* runs exactly the elements of the list, one liquibase invocation each, in order.
C24_CommandsRoundTrip ==
  /\ \A c \in Constructs :
       ReadCommands(c.project.LIQUIBASE_COMMANDS) = c.props.liquibaseCommands
  /\ ran # <<>> =>
       \A c \in Constructs :
         c.project.projectName = ran[1].project => ran[1].commands = c.props.liquibaseCommands

(***************************************************************************)
(* The paths of an invocation and its response                             *)
(***************************************************************************)
\* C36: a diagnostics call (the metadata query of logBuildFailureDetails or the
\* log fetch) has been sent only in a Create or Update whose StartBuild resolved
\* and whose poll loop ended with a status other than SUCCEEDED: none after a
\* success, a watcher timeout, a build not found, a failed start or a Delete.
C36_DiagnosticsOnlyOnJobFailure ==
  (nDiagMeta > 0 \/ nLogFetch > 0) =>
    /\ IsCreateOrUpdate
    /\ startOutcome.kind = "response"
    /\ lastPoll = "status"
    /\ buildStatus \notin {"IN_PROGRESS", "SUCCEEDED"}

\* a watcher timeout after several status queries, answered without diagnostics
C36_Witness ==
  /\ Done /\ Failed /\ lastPoll = "status" /\ buildStatus = "IN_PROGRESS"
  /\ response.Reason = "Build timeout: exceeded maximum wait time of 60000ms"
  /\ nQuery >= 2 /\ nDiagMeta = 0 /\ nLogFetch = 0

\* C37: a response has a Reason exactly when the invocation is neither a Delete
\* nor a Create or Update whose poll loop observed SUCCEEDED; Data is non-empty
\* only in the response of such a Create or Update, where it holds the build id
\* StartBuild returned and the status SUCCEEDED; every response with a Reason and
\* every response to a Delete has empty Data.
C37_ReasonAndDataShape ==
  Done =>
    /\ Failed <=> ~(\/ event.RequestType = "Delete"
                    \/ (IsCreateOrUpdate /\ lastPoll = "status" /\ buildStatus = "SUCCEEDED"))
    /\ response.Data # EmptyData =>
         /\ IsCreateOrUpdate /\ ~Failed
         /\ response.Data = [BuildId |-> startOutcome.resp.build.id,
                             BuildStatus |-> "SUCCEEDED"]
    /\ (Failed \/ event.RequestType = "Delete") => response.Data = EmptyData

\* an Update whose build ended STOPPED, answered after the diagnostics fetched logs
C37_Witness ==
  /\ Done /\ event.RequestType = "Update" /\ buildStatus = "STOPPED" /\ nLogFetch = 1
  /\ response.Reason = "Build failed with status: STOPPED" /\ response.Data = EmptyData

\* C38: an event whose RequestType is none of Create, Update and Delete is
\* answered in its first step: no StartBuild, status query or diagnostics call is
\* sent, the response has a Reason naming the request type (UNKNOWN for an empty
\* one) and empty Data, and its PhysicalResourceId is the event's own when it has
\* one and its LogicalResourceId otherwise.
C38_UnknownRequestTypeFails ==
  event.RequestType \notin {"none", "Create", "Update", "Delete"} =>
    /\ Done
    /\ nStart = 0 /\ nQuery = 0 /\ nDiagMeta = 0 /\ nLogFetch = 0
    /\ Failed
    /\ response.Reason = "Unknown request type: "
                           \o (IF event.RequestType = "" THEN "UNKNOWN" ELSE event.RequestType)
    /\ response.Data = EmptyData
    /\ response.PhysicalResourceId =
         (IF "PhysicalResourceId" \in DOMAIN event
          THEN event.PhysicalResourceId ELSE event.LogicalResourceId)

\* a Replace event that carries a token has been answered with that token
C38_Witness ==
  /\ Done /\ event.RequestType = "Replace" /\ "PhysicalResourceId" \in DOMAIN event
  /\ response.PhysicalResourceId = "P1"
  /\ response.Reason = "Unknown request type: Replace"

(***************************************************************************)
(* The diagnostics' calls                                                  *)
(***************************************************************************)
\* the metadata query of the diagnostics resolved with a build whose log location
\* has a group name and a stream name
LocationSeen ==
  /\ metaSeen.kind = "response"
  /\ "builds" \in DOMAIN metaSeen.resp /\ metaSeen.resp.builds # <<>>
  /\ LET build == metaSeen.resp.builds[1]
     IN  /\ "logs" \in DOMAIN build
         /\ {"groupName", "streamName"} \subseteq DOMAIN build.logs
         /\ build.logs.groupName # "" /\ build.logs.streamName # ""

\* C32: once the metadata query of the diagnostics has settled, exactly one log
\* fetch has been sent if the query returned a build whose log location has both
\* a group name and a stream name, and none otherwise; no log fetch is sent before
\* the metadata query has settled.
C32_LogFetchIffLocated ==
  /\ (nDiagMeta = 0 \/ pc = "diagMeta") => nLogFetch = 0
  /\ (nDiagMeta >= 1 /\ pc \in {"diagLogs", "done"}) =>
       nLogFetch = (IF LocationSeen THEN 1 ELSE 0)

\* the metadata query returned a log location and the one log fetch was answered
C32_Witness ==
  /\ Done /\ LocationSeen /\ nLogFetch = 1 /\ logSeen.kind = "response"

\* the events GetLogEvents resolved with
EventsSeen == IF "events" \in DOMAIN logSeen.resp THEN logSeen.resp.events ELSE <<>>

\* the message has a character that is not white space
NonBlank(m) == \E i \in 1..Len(m) : m[i] # " "

\* the events whose message is neither missing nor blank
KeptEvents ==
  {i \in 1..Len(EventsSeen) :
     "message" \in DOMAIN EventsSeen[i] /\ NonBlank(EventsSeen[i].message)}

\* the k-th of them
KeptEvent(k) ==
  CHOOSE i \in KeptEvents : Cardinality({j \in KeptEvents : j <= i}) = k

\* the message from its first to its last character that is not white space
Stripped(m) ==
  LET solid == {i \in 1..Len(m) : m[i] # " "}
      first == CHOOSE i \in solid : \A j \in solid : i <= j
      last == CHOOSE i \in solid : \A j \in solid : j <= i
  IN  SubSeq(m, first, last)

\* GetLogEvents of the diagnostics resolved and handler has answered
LogsFetched == Done /\ nLogFetch = 1 /\ logSeen.kind = "response"

\* C33 as stated: the lines kept are the messages the log service returned, as
\* returned, without those missing or blank, in the order returned; at most 10.
C33_KeptAreMessages ==
  LogsFetched =>
    /\ Len(logged) = Cardinality(KeptEvents)
    /\ Len(logged) <= 10
    /\ \A k \in 1..Len(logged) : logged[k] = EventsSeen[KeptEvent(k)].message

\* C33: the lines kept are the messages the log service returned, each without
\* its leading and trailing white space, without those missing or blank, in the
\* order returned; at most 10.
C33_KeptAreTrimmedMessages ==
  LogsFetched =>
    /\ Len(logged) = Cardinality(KeptEvents)
    /\ Len(logged) <= 10
    /\ \A k \in 1..Len(logged) : logged[k] = Stripped(EventsSeen[KeptEvent(k)].message)

\* ten events, a blank message and ' b ' in turn: five lines 'b' are kept
C33_Witness ==
  /\ LogsFetched /\ Len(EventsSeen) = 10
  /\ EventsSeen[1] = [message |-> <<" ">>] /\ EventsSeen[2] = [message |-> <<" ", "b", " ">>]
  /\ logged = [k \in 1..5 |-> <<"b">>]

(***************************************************************************)
(* Invocations that run at the same time                                   *)
(***************************************************************************)
\* the invocations that have been given a build
Started == {i \in RunIds : runs[i].buildId # ""}

====
